---- MODULE Spec2Model ----
(***************************************************************************)
(* Model of packages/cli/src/utils/codeCommand.ts: executeCodeCommand, the *)
(* launcher that builds a settings payload, translates the caller's        *)
(* arguments with minimist, spawns the claude executable, wires its        *)
(* streams and maps its termination to the host's exit status.             *)
(*                                                                         *)
(* Strings that the code inspects character by character (the arguments,   *)
(* the flag tokens) are sequences of one-character strings.                *)
(***************************************************************************)
EXTENDS Integers, Sequences, FiniteSets, TLC

\* ------------------------------------------------------------------ bounds
\* Longest caller argument sequence drawn in InitArgs.
MaxArgs == 3
\* Most stdout chunks the child emits before it closes.
MaxChunks == 2
\* Largest exit code the child reports (besides "no code").
MaxExitCode == 2

Null == "null"

\* ------------------------------------------------------------ characters
Letters ==
    {"a","b","c","d","e","f","g","h","i","j","k","l","m",
     "n","o","p","q","r","s","t","u","v","w","x","y","z"}

Digits == {"0","1","2","3","4","5","6","7","8","9"}

\* \w of a JavaScript regular expression
WordChars == Letters \cup Digits \cup {"_"}

Drop(s, n) == IF n >= Len(s) THEN << >> ELSE SubSeq(s, n + 1, Len(s))

Take(s, n) == IF n >= Len(s) THEN s ELSE SubSeq(s, 1, n)

StartsWith(s, p) == Len(s) >= Len(p) /\ SubSeq(s, 1, Len(p)) = p

\* index of the first occurrence of character c in s, 0 when there is none
RECURSIVE IndexFrom(_, _, _)
IndexFrom(s, c, i) ==
    IF i > Len(s) THEN 0
    ELSE IF s[i] = c THEN i
    ELSE IndexFrom(s, c, i + 1)

IndexOf(s, c) == IndexFrom(s, c, 1)

\* ------------------------------------------------- minimist: value model
\* A parsed value: a string, a number (v is its canonical decimal text), a
\* boolean (v is "true" or "false") or an array of such scalars (a).
StrVal(s) == [t |-> "str", v |-> s, a |-> << >>]

NumVal(s) == [t |-> "num", v |-> s, a |-> << >>]

BoolVal(b) ==
    [t |-> "bool",
     v |-> IF b THEN <<"t","r","u","e">> ELSE <<"f","a","l","s","e">>,
     a |-> << >>]

ArrVal(elems) == [t |-> "arr", v |-> << >>, a |-> elems]

IsTrue(val) == val.t = "bool" /\ val.v = <<"t","r","u","e">>

IsFalse(val) == val.t = "bool" /\ val.v = <<"f","a","l","s","e">>

AllDigits(s) == Len(s) > 0 /\ \A i \in 1..Len(s) : s[i] \in Digits

\* minimist's isNumber on strings without '.', exponent or hex forms:
\* /^[-+]?\d+$/
IsNumber(s) ==
    /\ Len(s) > 0
    /\ IF s[1] \in {"-", "+"} THEN AllDigits(Drop(s, 1)) ELSE AllDigits(s)

RECURSIVE StripZeros(_)
StripZeros(s) ==
    IF Len(s) > 1 /\ s[1] = "0" THEN StripZeros(Drop(s, 1)) ELSE s

\* Number(s) printed back as JavaScript prints an integer: no sign '+', no
\* leading zeros, "-0" printed as "0".
NumberText(s) ==
    LET neg  == s[1] = "-"
        body == StripZeros(IF s[1] \in {"-", "+"} THEN Drop(s, 1) ELSE s)
    IN  IF neg /\ body # <<"0">> THEN <<"-">> \o body ELSE body

\* setArg's conversion: a numeric-looking string becomes a number
Coerce(s) == IF IsNumber(s) THEN NumVal(NumberText(s)) ELSE StrVal(s)

\* ------------------------------------------------ minimist: parsed object
\* argv: pos is argv._ and flags the other keys in insertion order, which is
\* the order Object.entries lists them in.
EmptyArgv == [pos |-> << >>, flags |-> << >>]

RECURSIVE FlagIndexFrom(_, _, _)
FlagIndexFrom(flags, key, i) ==
    IF i > Len(flags) THEN 0
    ELSE IF flags[i].key = key THEN i
    ELSE FlagIndexFrom(flags, key, i + 1)

FlagIndex(flags, key) == FlagIndexFrom(flags, key, 1)

\* setKey: a new key is added; a boolean is overwritten; an array is pushed
\* to; any other earlier value is paired with the new one in an array.
SetKey(o, key, val) ==
    IF key = <<"_">> THEN [o EXCEPT !.pos = Append(@, val)]
    ELSE LET i == FlagIndex(o.flags, key) IN
         IF i = 0
         THEN [o EXCEPT !.flags = Append(@, [key |-> key, val |-> val])]
         ELSE LET old == o.flags[i].val IN
              IF old.t = "bool"
              THEN [o EXCEPT !.flags[i].val = val]
              ELSE IF old.t = "arr"
              THEN [o EXCEPT !.flags[i].val = ArrVal(Append(old.a, val))]
              ELSE [o EXCEPT !.flags[i].val = ArrVal(<<old, val>>)]

SetArgStr(o, key, s) == SetKey(o, key, Coerce(s))

SetArgBool(o, key, b) == SetKey(o, key, BoolVal(b))

\* /^(-|--)[^-]/
LooksLikeFlag(s) ==
    \/ Len(s) >= 2 /\ s[1] = "-" /\ s[2] # "-"
    \/ Len(s) >= 3 /\ s[1] = "-" /\ s[2] = "-" /\ s[3] # "-"

\* /^--.+=/
IsLongWithEquals(s) ==
    /\ StartsWith(s, <<"-","-">>)
    /\ \E i \in 4..Len(s) : s[i] = "="

\* /^--no-.+/
IsNegated(s) == StartsWith(s, <<"-","-","n","o","-">>) /\ Len(s) >= 6

\* /^--.+/
IsLong(s) == StartsWith(s, <<"-","-">>) /\ Len(s) >= 3

\* /^-[^-]+/
IsShort(s) == Len(s) >= 2 /\ s[1] = "-" /\ s[2] # "-"

\* /^(true|false)$/
IsBoolWord(s) == s \in {<<"t","r","u","e">>, <<"f","a","l","s","e">>}

\* /-?\d+(\.\d*)?(e-?\d+)?$/ : a string that ends in a number
EndsInNumber(s) ==
    /\ Len(s) > 0
    /\ \/ s[Len(s)] \in Digits
       \/ s[Len(s)] = "." /\ Len(s) >= 2 /\ s[Len(s) - 1] \in Digits

\* The loop over the letters of a short group -abc (all characters but the
\* first dash and the last letter); j is the JavaScript index.  Yields the
\* object and whether the loop broke out.
RECURSIVE ShortLetters(_, _, _)
ShortLetters(o, arg, j) ==
    LET letters == SubSeq(arg, 2, Len(arg) - 1)
    IN  IF j >= Len(letters) THEN [o |-> o, broken |-> FALSE]
        ELSE LET letter == letters[j + 1]
                 next   == Drop(arg, j + 2)
             IN  IF next = <<"-">>
                 THEN ShortLetters(SetArgStr(o, <<letter>>, next), arg, j + 1)
                 ELSE IF letter \in Letters /\ next[1] = "="
                 THEN [o |-> SetArgStr(o, <<letter>>, Drop(next, 1)),
                       broken |-> TRUE]
                 ELSE IF letter \in Letters /\ EndsInNumber(next)
                 THEN [o |-> SetArgStr(o, <<letter>>, next), broken |-> TRUE]
                 ELSE IF j + 2 <= Len(letters) /\ letters[j + 2] \notin WordChars
                 THEN [o |-> SetArgStr(o, <<letter>>, Drop(arg, j + 2)),
                       broken |-> TRUE]
                 ELSE ShortLetters(SetArgBool(o, <<letter>>, TRUE), arg, j + 1)

\* The main loop of minimist over the arguments before a "--".
RECURSIVE ParseFrom(_, _, _)
ParseFrom(o, args, i) ==
    IF i > Len(args) THEN o
    ELSE
    LET arg     == args[i]
        hasNext == i + 1 <= Len(args)
        next    == IF hasNext THEN args[i + 1] ELSE << >>
    IN  IF IsLongWithEquals(arg)
        THEN LET eq == IndexOf(arg, "=")
             IN  ParseFrom(SetArgStr(o, SubSeq(arg, 3, eq - 1), Drop(arg, eq)),
                           args, i + 1)
        ELSE IF IsNegated(arg)
        THEN ParseFrom(SetArgBool(o, Drop(arg, 5), FALSE), args, i + 1)
        ELSE IF IsLong(arg)
        THEN LET key == Drop(arg, 2)
             IN  IF hasNext /\ ~LooksLikeFlag(next)
                 THEN ParseFrom(SetArgStr(o, key, next), args, i + 2)
                 ELSE IF hasNext /\ IsBoolWord(next)
                 THEN ParseFrom(SetArgBool(o, key, next = <<"t","r","u","e">>),
                                args, i + 2)
                 ELSE ParseFrom(SetArgBool(o, key, TRUE), args, i + 1)
        ELSE IF IsShort(arg)
        THEN LET r   == ShortLetters(o, arg, 0)
                 key == <<arg[Len(arg)]>>
             IN  IF r.broken \/ key = <<"-">>
                 THEN ParseFrom(r.o, args, i + 1)
                 ELSE IF hasNext /\ Len(next) > 0 /\ ~LooksLikeFlag(next)
                 THEN ParseFrom(SetArgStr(r.o, key, next), args, i + 2)
                 ELSE IF hasNext /\ IsBoolWord(next)
                 THEN ParseFrom(SetArgBool(r.o, key, next = <<"t","r","u","e">>),
                                args, i + 2)
                 ELSE ParseFrom(SetArgBool(r.o, key, TRUE), args, i + 1)
        ELSE ParseFrom([o EXCEPT !.pos = Append(@, Coerce(arg))], args, i + 1)

RECURSIVE PushAll(_, _)
PushAll(pos, rest) ==
    IF rest = << >> THEN pos
    ELSE PushAll(Append(pos, StrVal(Head(rest))), Tail(rest))

\* minimist(args) with no options: everything after the first "--" is
\* positional and is not parsed.
Minimist(args) ==
    LET dd       == IndexOf(args, <<"-","-">>)
        before   == IF dd = 0 THEN args ELSE Take(args, dd - 1)
        notFlags == IF dd = 0 THEN << >> ELSE Drop(args, dd)
        o        == ParseFrom(EmptyArgv, before, 1)
    IN  [o EXCEPT !.pos = PushAll(@, notFlags)]

\* ------------------------------------------------------- JSON.stringify
RECURSIVE EscapeJson(_)
EscapeJson(s) ==
    IF s = << >> THEN << >>
    ELSE IF Head(s) \in {"\"", "\\"}
    THEN <<"\\", Head(s)>> \o EscapeJson(Tail(s))
    ELSE <<Head(s)>> \o EscapeJson(Tail(s))

StringifyScalar(val) ==
    IF val.t = "str" THEN <<"\"">> \o EscapeJson(val.v) \o <<"\"">>
    ELSE val.v

RECURSIVE StringifyElems(_)
StringifyElems(elems) ==
    IF elems = << >> THEN << >>
    ELSE IF Len(elems) = 1 THEN StringifyScalar(Head(elems))
    ELSE StringifyScalar(Head(elems)) \o <<",">> \o StringifyElems(Tail(elems))

\* JSON.stringify of a parsed value
JsonStringify(val) ==
    IF val.t = "arr" THEN <<"[">> \o StringifyElems(val.a) \o <<"]">>
    ELSE StringifyScalar(val)

\* --------------------------------------------- argument translation
\* line 109: one dash for a one-character key, two otherwise
Prefix(key) == IF Len(key) = 1 THEN <<"-">> ELSE <<"-","-">>

\* ValueToken with the string case lost: every value goes as its JSON text
ValueToken_AlwaysJson(val) == JsonStringify(val)

\* line 122: a string goes as it is, anything else as its JSON text
ValueToken(val) == IF val.t = "str" THEN val.v ELSE JsonStringify(val)

\* Object.entries(argsObj): '_' was created first, then the flags in the
\* order minimist first set them
Entries(o) == <<[key |-> <<"_">>, val |-> ArrVal(o.pos)]>> \o o.flags

\* EntryTokens without line 113's branch: a false flag is serialized like
\* any other value
EntryTokens_FalseEmitted(entry, nonInteractive) ==
    LET name == Prefix(entry.key) \o entry.key
    IN  IF entry.key = <<"_">> THEN << >>
        ELSE IF IsTrue(entry.val) THEN <<name>>
        ELSE IF nonInteractive THEN <<name, ValueToken(entry.val)>>
        ELSE <<name \o <<" ">> \o JsonStringify(entry.val)>>

\* lines 108-126 for one entry of argsObj: the tokens it adds to argsArr
EntryTokens(entry, nonInteractive) ==
    LET name == Prefix(entry.key) \o entry.key
    IN  IF entry.key = <<"_">> THEN << >>
        ELSE IF IsTrue(entry.val) THEN <<name>>
        ELSE IF IsFalse(entry.val) THEN << >>
        ELSE IF nonInteractive THEN <<name, ValueToken(entry.val)>>
        ELSE <<name \o <<" ">> \o JsonStringify(entry.val)>>

\* lines 104-128: the loop over Object.entries(argsObj); '_' is skipped.
\* Each token is kept with the key of the entry that produced it.
RECURSIVE TranslateFrom(_, _, _)
TranslateFrom(entries, nonInteractive, i) ==
    IF i > Len(entries) THEN << >>
    ELSE LET toks == EntryTokens(entries[i], nonInteractive)
         IN  [j \in 1..Len(toks) |-> [tok |-> toks[j], key |-> entries[i].key]]
             \o TranslateFrom(entries, nonInteractive, i + 1)

TranslateArgs(o, nonInteractive) ==
    TranslateFrom(Entries(o), nonInteractive, 1)

Tokens(tagged) == [i \in 1..Len(tagged) |-> tagged[i].tok]

\* ------------------------------------------------------------- the state
VARIABLES
    pc,             \* position of the launcher (section 4.1's state machine)
    config,         \* readConfigFile(): NON_INTERACTIVE_MODE, StatusLine
    baseEnv,        \* createEnvVariables()
    presetConfig,   \* the caller's preset: StatusLine, claudeCodeSettings
    envOverrides,   \* the caller's envOverrides
    presetName,     \* the caller's presetName, Null when not supplied
    callerArgs,     \* the argument sequence as the caller passed it
    args,           \* the caller's array object, as it is now
    settingsFlag,   \* the payload under construction
    settingsWritten,\* what getSettingsPath was given to persist
    settingsFile,   \* the path getSettingsPath returned
    argsObj,        \* minimist(args)
    argsArr,        \* the translated tokens, each with its source key
    child,          \* the spawned process: state, argv, shell, piped
    outputFilePath, \* process.env.CCR_OUTPUT_FILE, Null when unset
    handlers,       \* the listeners registered so far, in order
    emitted,        \* stdout chunks the child has emitted
    fileContent,    \* chunks appended to the output file
    synced,         \* how many of them an fsync has covered
    parentStdout,   \* chunks piped to the parent's stdout
    childStdinEnded,\* claudeProcess.stdin.end() was called
    calls,          \* collaborator and fs calls, in order
    exitStatus      \* the status given to process.exit, Null before

vars == <<pc, config, baseEnv, presetConfig, envOverrides, presetName,
          callerArgs, args, settingsFlag, settingsWritten, settingsFile,
          argsObj, argsArr, child, outputFilePath, handlers, emitted, fileContent,
          synced, parentStdout, childStdinEnded, calls, exitStatus>>

inputs == <<config, baseEnv, presetConfig, envOverrides, presetName,
            callerArgs>>

\* ------------------------------------------------------------ environment
Absent == "absent"

EnvKeys == {"A", "B", "C", "TERM", "CI", "FORCE_COLOR", "NODE_NO_READLINE"}

EmptyEnv == [k \in EnvKeys |-> Absent]

\* an environment mapping: each key's value, Absent for a key it lacks
EnvOf(a, b, c, term) ==
    [k \in EnvKeys |->
        CASE k = "A" -> a
          [] k = "B" -> b
          [] k = "C" -> c
          [] k = "TERM" -> term
          [] OTHER -> Absent]

\* { ...base, ...over } and Object.assign(base, over): over's keys win
Spread(base, over) ==
    [k \in EnvKeys |-> IF over[k] # Absent THEN over[k] ELSE base[k]]

\* lines 78-84: the fixed automation environment
AutomationEnv ==
    [k \in EnvKeys |->
        CASE k = "CI" -> "true"
          [] k = "FORCE_COLOR" -> "0"
          [] k = "NODE_NO_READLINE" -> "1"
          [] k = "TERM" -> "dumb"
          [] OTHER -> Absent]

\* ------------------------------------------------------------ status line
NoStatusLine ==
    [present |-> FALSE, type |-> Null, command |-> << >>, padding |-> 0]

\* lines 52-60; the command is its words, joined by single spaces
SynthesizedStatusLine(name) ==
    [present |-> TRUE,
     type    |-> "command",
     command |-> IF name # Null THEN <<"ccr", "statusline", name>>
                 ELSE <<"ccr", "statusline">>,
     padding |-> 0]

\* a status line a preset carries in its claudeCodeSettings
PresetOwnStatusLine ==
    [present |-> TRUE, type |-> "command", command |-> <<"my-status">>,
     padding |-> 1]

\* SelectStatusLine with the operands of || swapped: the global one first
SelectStatusLine_GlobalFirst(preset, cfg) ==
    IF cfg.StatusLine.present THEN cfg.StatusLine ELSE preset.StatusLine

\* line 48: presetConfig?.StatusLine || config?.StatusLine
SelectStatusLine(preset, cfg) ==
    IF preset.StatusLine.present THEN preset.StatusLine ELSE cfg.StatusLine

\* lines 50-61
WithStatusLine(flag, preset, cfg, name) ==
    LET statusLineConfig == SelectStatusLine(preset, cfg)
    IN  IF statusLineConfig.present /\ statusLineConfig.enabled
        THEN [flag EXCEPT !.statusLine = SynthesizedStatusLine(name)]
        ELSE flag

\* MergePreset without lines 69-72: env is replaced like any other key
MergePreset_ShallowEnv(flag, preset) ==
    LET ccs == preset.claudeCodeSettings
    IN  IF ccs.present
        THEN [env        |-> ccs.env,
              statusLine |-> IF ccs.statusLine.present THEN ccs.statusLine
                             ELSE flag.statusLine]
        ELSE flag

\* lines 64-74: the preset's keys win, env is merged key by key
MergePreset(flag, preset) ==
    LET ccs == preset.claudeCodeSettings
    IN  IF ccs.present
        THEN [env        |-> Spread(flag.env, ccs.env),
              statusLine |-> IF ccs.statusLine.present THEN ccs.statusLine
                             ELSE flag.statusLine]
        ELSE flag

\* NonInteractiveEnv with the spread written last: earlier values win
NonInteractiveEnv_SpreadLast(flag, cfg) ==
    IF cfg.NON_INTERACTIVE_MODE
    THEN [flag EXCEPT !.env = Spread(AutomationEnv, @)]
    ELSE flag

\* lines 77-85
NonInteractiveEnv(flag, cfg) ==
    IF cfg.NON_INTERACTIVE_MODE
    THEN [flag EXCEPT !.env = Spread(@, AutomationEnv)]
    ELSE flag

\* ----------------------------------------------------------------- inputs
StatusLineConfigs ==
    {[present |-> FALSE, enabled |-> FALSE],
     [present |-> TRUE,  enabled |-> FALSE],
     [present |-> TRUE,  enabled |-> TRUE]}

Configs == [NON_INTERACTIVE_MODE : BOOLEAN, StatusLine : StatusLineConfigs]

BaseEnvs ==
    {EnvOf(a, b, Absent, t) :
        a \in {Absent, "1"}, b \in {Absent, "2"}, t \in {Absent, "xterm"}}

OverrideEnvs ==
    {EnvOf(a, Absent, Absent, t) : a \in {Absent, "9"}, t \in {Absent, "ansi"}}

PresetEnvs ==
    {EnvOf(Absent, b, c, t) :
        b \in {Absent, "3"}, c \in {Absent, "4"}, t \in {Absent, "vt100"}}

NoClaudeCodeSettings ==
    [present |-> FALSE, env |-> EmptyEnv, statusLine |-> NoStatusLine]

ClaudeCodeSettings ==
    {NoClaudeCodeSettings}
    \cup [present : {TRUE}, env : PresetEnvs,
          statusLine : {NoStatusLine, PresetOwnStatusLine}]

\* a null presetConfig is the preset with neither field
PresetConfigs ==
    [StatusLine : StatusLineConfigs, claudeCodeSettings : ClaudeCodeSettings]

PresetNames == {Null, "fast"}

\* the argument strings the caller's sequences are drawn from
ArgTokens ==
    {<<"-","-","m","o","d","e","l">>,
     <<"x">>,
     <<"-","v">>,
     <<"-","-">>,
     <<"-","-","s","e","t","t","i","n","g","s">>,
     <<"-","-","n","o","-","v">>,
     <<"0","5">>,
     <<"-","a","b">>,
     <<"a","\"","b">>}

ArgSeqs(n) == UNION {[1..k -> ArgTokens] : k \in 0..n}

\* the path getSettingsPath returns
SettingsPaths == {<<"/","t","/","s",".","j","s","o","n">>}

OutputPath == "/out/claude.jsonl"

\* the child's exit code: << >> when there is none (it was signalled)
ExitCodes == {<< >>} \cup {<<n>> : n \in 0..MaxExitCode}

PlainConfig(ni) ==
    [NON_INTERACTIVE_MODE |-> ni,
     StatusLine |-> [present |-> FALSE, enabled |-> FALSE]]

PlainPreset ==
    [StatusLine |-> [present |-> FALSE, enabled |-> FALSE],
     claudeCodeSettings |-> NoClaudeCodeSettings]

\* the state when executeCodeCommand is entered
InitWith(cfg, base, preset, over, name, argv) ==
    /\ pc = "IDLE"
    /\ config = cfg
    /\ baseEnv = base
    /\ presetConfig = preset
    /\ envOverrides = over
    /\ presetName = name
    /\ callerArgs = argv
    /\ args = argv
    /\ settingsFlag = [env |-> EmptyEnv, statusLine |-> NoStatusLine]
    /\ settingsWritten = [env |-> EmptyEnv, statusLine |-> NoStatusLine]
    /\ settingsFile = << >>
    /\ argsObj = EmptyArgv
    /\ argsArr = << >>
    /\ child = [state |-> "none", argv |-> << >>, shell |-> FALSE,
                piped |-> FALSE, code |-> << >>]
    /\ outputFilePath = Null
    /\ handlers = << >>
    /\ emitted = 0
    /\ fileContent = << >>
    /\ synced = 0
    /\ parentStdout = << >>
    /\ childStdinEnded = FALSE
    /\ calls = << >>
    /\ exitStatus = << >>

\* the launcher's life: both modes, a short argument sequence
Init ==
    \E ni \in BOOLEAN, argv \in ArgSeqs(1) :
        InitWith(PlainConfig(ni), EnvOf("1", "2", Absent, Absent), PlainPreset,
                 EmptyEnv, Null, argv)

\* argument translation: every argument sequence up to MaxArgs
InitArgs ==
    \E ni \in BOOLEAN, argv \in ArgSeqs(MaxArgs) :
        InitWith(PlainConfig(ni), EnvOf("1", "2", Absent, Absent), PlainPreset,
                 EmptyEnv, Null, argv)

\* the settings payload: every configuration, preset and environment
InitEnv ==
    \E cfg \in Configs, base \in BaseEnvs, preset \in PresetConfigs,
       over \in OverrideEnvs, name \in PresetNames :
        InitWith(cfg, base, preset, over, name, << >>)

\* ---------------------------------------------------------------- actions
\* lines 33-44
ReadConfigAndEnv ==
    /\ pc = "IDLE"
    /\ settingsFlag' = [env |-> Spread(baseEnv, envOverrides),
                        statusLine |-> NoStatusLine]
    /\ pc' = "ENV_BUILT"
    /\ UNCHANGED <<inputs, args, settingsWritten, settingsFile, argsObj, argsArr, child,
                   outputFilePath, handlers, emitted, fileContent, synced,
                   parentStdout, childStdinEnded, calls, exitStatus>>

\* lines 46-61
AddStatusLine ==
    /\ pc = "ENV_BUILT"
    /\ settingsFlag' = WithStatusLine(settingsFlag, presetConfig, config,
                                      presetName)
    /\ pc' = "STATUSLINE_SET"
    /\ UNCHANGED <<inputs, args, settingsWritten, settingsFile, argsObj, argsArr, child,
                   outputFilePath, handlers, emitted, fileContent, synced,
                   parentStdout, childStdinEnded, calls, exitStatus>>

\* lines 63-74
MergePresetSettings ==
    /\ pc = "STATUSLINE_SET"
    /\ settingsFlag' = MergePreset(settingsFlag, presetConfig)
    /\ pc' = "PRESET_MERGED"
    /\ UNCHANGED <<inputs, args, settingsWritten, settingsFile, argsObj, argsArr, child,
                   outputFilePath, handlers, emitted, fileContent, synced,
                   parentStdout, childStdinEnded, calls, exitStatus>>

\* lines 76-85
ApplyNonInteractiveEnv ==
    /\ pc = "PRESET_MERGED"
    /\ settingsFlag' = NonInteractiveEnv(settingsFlag, config)
    /\ pc' = "CONFIG_BUILT"
    /\ UNCHANGED <<inputs, args, settingsWritten, settingsFile, argsObj, argsArr, child,
                   outputFilePath, handlers, emitted, fileContent, synced,
                   parentStdout, childStdinEnded, calls, exitStatus>>

\* line 87: the payload is handed to getSettingsPath, which returns a path
WriteSettings ==
    /\ pc = "CONFIG_BUILT"
    /\ \E path \in SettingsPaths : settingsFile' = path
    /\ settingsWritten' = settingsFlag
    /\ pc' = "SETTINGS_WRITTEN"
    /\ UNCHANGED <<inputs, args, settingsFlag, argsObj, argsArr, child,
                   outputFilePath, handlers, emitted, fileContent, synced,
                   parentStdout, childStdinEnded, calls, exitStatus>>

\* line 89: args.push('--settings', settingsFile)
PushSettings(argv, path) ==
    argv \o <<<<"-","-","s","e","t","t","i","n","g","s">>, path>>

\* lines 89-92
AppendSettingsAndIncrement ==
    /\ pc = "SETTINGS_WRITTEN"
    /\ args' = PushSettings(args, settingsFile)
    /\ calls' = Append(calls, "increment")
    /\ pc' = "REF_INCREMENTED"
    /\ UNCHANGED <<inputs, settingsFlag, settingsWritten, settingsFile, argsObj, argsArr,
                   child, outputFilePath, handlers, emitted, fileContent,
                   synced, parentStdout, childStdinEnded, exitStatus>>

\* lines 103-128
TranslateArguments ==
    /\ pc = "REF_INCREMENTED"
    /\ argsObj' = Minimist(args)
    /\ argsArr' = TranslateArgs(Minimist(args), config.NON_INTERACTIVE_MODE)
    /\ pc' = "TRANSLATED"
    /\ UNCHANGED <<inputs, args, settingsFlag, settingsWritten, settingsFile,
                   child, outputFilePath, handlers, emitted, fileContent,
                   synced, parentStdout, childStdinEnded, calls, exitStatus>>

\* lines 129-141.  spawn either starts the child, or fails in a way Node
\* reports later through the 'error' event (ENOENT, EACCES, ...), or throws
\* (any other errno), which rejects executeCodeCommand.
SpawnClaude ==
    /\ pc = "TRANSLATED"
    /\ \E outcome \in {"started", "errorEvent", "throws"} :
        IF outcome = "throws"
        THEN /\ pc' = "REJECTED"
             /\ child' = child
        ELSE /\ pc' = "SPAWNED"
             /\ child' = [state |-> IF outcome = "started" THEN "running"
                                    ELSE "failed",
                          argv  |-> Tokens(argsArr),
                          shell |-> ~config.NON_INTERACTIVE_MODE,
                          piped |-> config.NON_INTERACTIVE_MODE,
                          code  |-> << >>]
    /\ calls' = Append(calls, "spawn")
    /\ UNCHANGED <<inputs, args, settingsFlag, settingsWritten, settingsFile,
                   argsObj, argsArr, outputFilePath, handlers, emitted, fileContent,
                   synced, parentStdout, childStdinEnded, exitStatus>>

Has(seq, x) == \E i \in 1..Len(seq) : seq[i] = x

Count(seq, x) == Cardinality({i \in 1..Len(seq) : seq[i] = x})

\* lines 143-171.  In non-interactive mode stdin is piped to the child and
\* CCR_OUTPUT_FILE is read; with a path set the file is opened for
\* appending, and fs.openSync either returns a descriptor or throws, which
\* rejects executeCodeCommand before lines 173-186 register any listener.
WireStreams ==
    /\ pc = "SPAWNED"
    /\ IF ~child.piped
       THEN /\ pc' = "WIRED"
            /\ UNCHANGED <<outputFilePath, handlers, calls>>
       ELSE \E path \in {Null, OutputPath} :
            /\ outputFilePath' = path
            /\ IF path = Null
               THEN /\ handlers' = <<"stdinEnd">>
                    /\ pc' = "WIRED"
                    /\ calls' = calls
               ELSE \E opened \in BOOLEAN :
                    IF opened
                    THEN /\ handlers' = <<"stdinEnd", "data", "closeFd">>
                         /\ calls' = Append(calls, "open")
                         /\ pc' = "WIRED"
                    ELSE /\ handlers' = <<"stdinEnd">>
                         /\ calls' = calls \o <<"open", "throw">>
                         /\ pc' = "REJECTED"
    /\ UNCHANGED <<inputs, args, settingsFlag, settingsWritten, settingsFile,
                   argsObj, argsArr, child, emitted, fileContent, synced, parentStdout,
                   childStdinEnded, exitStatus>>

\* lines 173-186: the 'error' and 'close' listeners
RegisterHandlers ==
    /\ pc = "WIRED"
    /\ handlers' = handlers \o <<"error", "close">>
    /\ pc' = "STREAMING"
    /\ UNCHANGED <<inputs, args, settingsFlag, settingsWritten, settingsFile,
                   argsObj, argsArr, child, outputFilePath, emitted, fileContent, synced,
                   parentStdout, childStdinEnded, calls, exitStatus>>

\* lines 147-149: the parent's stdin ends
StdinEnd ==
    /\ pc = "STREAMING"
    /\ Has(handlers, "stdinEnd")
    /\ ~childStdinEnded
    /\ childStdinEnded' = TRUE
    /\ UNCHANGED <<pc, inputs, args, settingsFlag, settingsWritten,
                   settingsFile, argsObj, argsArr, child, outputFilePath, handlers,
                   emitted, fileContent, synced, parentStdout, calls,
                   exitStatus>>

\* lines 160-163 and 169: the child writes a chunk to its stdout.  With the
\* 'data' listener the chunk is written and fsynced; either call may throw,
\* and an exception out of a listener ends the host process.
StdoutData ==
    /\ pc = "STREAMING"
    /\ child.state = "running"
    /\ child.piped
    /\ emitted < MaxChunks
    /\ emitted' = emitted + 1
    /\ IF Has(handlers, "data")
       THEN \E outcome \in {"ok", "writeThrows", "fsyncThrows"} :
            /\ fileContent' = IF outcome = "writeThrows" THEN fileContent
                              ELSE Append(fileContent, emitted + 1)
            /\ synced' = IF outcome = "ok" THEN Len(fileContent) + 1 ELSE synced
            /\ calls' = calls \o
                 (CASE outcome = "ok" -> <<"write", "fsync">>
                    [] outcome = "writeThrows" -> <<"write", "throw">>
                    [] outcome = "fsyncThrows" -> <<"write", "fsync", "throw">>)
            /\ pc' = IF outcome = "ok" THEN pc ELSE "CRASHED"
            /\ parentStdout' = parentStdout
       ELSE /\ parentStdout' = Append(parentStdout, emitted + 1)
            /\ UNCHANGED <<pc, fileContent, synced, calls>>
    /\ UNCHANGED <<inputs, args, settingsFlag, settingsWritten, settingsFile,
                   argsObj, argsArr, child, outputFilePath, handlers, childStdinEnded,
                   exitStatus>>

\* ExitStatusOf with the code ignored: process.exit(0)
ExitStatusOf_AlwaysZero(code) == 0

\* line 185: code || 0
ExitStatusOf(code) == IF code = << >> THEN 0 ELSE code[1]

\* lines 182-186: the calls of the 'close' listener
OnClose == <<"decrement", "closeService", "exit">>

\* OnCloseFd with the closeSync call forgotten
OnCloseFd_NoClose == << >>

\* lines 164-166: the calls of the listener that closes the descriptor
OnCloseFd == <<"closeFd">>

\* lines 164-166 and 182-186: the child's 'close' event runs the listeners
\* in the order they were registered: the one that closes the descriptor
\* (fs.closeSync may throw, which ends the host process there), then the
\* one that decrements, shuts the service down and exits.
ChildClose ==
    /\ pc = "STREAMING"
    /\ child.state = "running"
    /\ \E code \in ExitCodes, closed \in BOOLEAN :
        /\ closed \/ Has(handlers, "closeFd")
        /\ child' = [child EXCEPT !.state = "closed", !.code = code]
        /\ IF closed
           THEN /\ calls' = calls
                      \o (IF Has(handlers, "closeFd") THEN OnCloseFd
                          ELSE << >>)
                      \o OnClose
                /\ exitStatus' = <<ExitStatusOf(code)>>
                /\ pc' = "EXITED"
           ELSE /\ calls' = calls \o <<"closeFd", "throw">>
                /\ exitStatus' = exitStatus
                /\ pc' = "CRASHED"
    /\ UNCHANGED <<inputs, args, settingsFlag, settingsWritten, settingsFile,
                   argsObj, argsArr, outputFilePath, handlers, emitted,
                   fileContent, synced, parentStdout, childStdinEnded>>

\* lines 173-180
OnError == <<"decrement", "exit">>

\* lines 173-180: the child's 'error' event after a failed spawn
ChildError ==
    /\ pc = "STREAMING"
    /\ child.state = "failed"
    /\ calls' = calls \o OnError
    /\ exitStatus' = <<1>>
    /\ pc' = "SPAWN_FAILED"
    /\ UNCHANGED <<inputs, args, settingsFlag, settingsWritten, settingsFile,
                   argsObj, argsArr, child, outputFilePath, handlers, emitted,
                   fileContent, synced, parentStdout, childStdinEnded>>

\* --------------------------------------------------------- specifications
NextBuild ==
    \/ ReadConfigAndEnv
    \/ AddStatusLine
    \/ MergePresetSettings
    \/ ApplyNonInteractiveEnv
    \/ WriteSettings

NextArgs ==
    \/ NextBuild
    \/ AppendSettingsAndIncrement
    \/ TranslateArguments
    \/ SpawnClaude

Next ==
    \/ NextArgs
    \/ WireStreams
    \/ RegisterHandlers
    \/ StdinEnd
    \/ StdoutData
    \/ ChildClose
    \/ ChildError

\* the whole launcher
Spec == Init /\ [][Next]_vars

\* lines 33-141 over every argument sequence
SpecArgs == InitArgs /\ [][NextArgs]_vars

\* lines 33-87 over every configuration
SpecEnv == InitEnv /\ [][NextBuild]_vars

\* ------------------------------------------------------------ properties
Ended == pc \in {"EXITED", "SPAWN_FAILED", "REJECTED", "CRASHED"}

\* index of the first occurrence of x in seq, 0 when there is none
FirstIndex(seq, x) ==
    IF Has(seq, x) THEN CHOOSE i \in 1..Len(seq) :
                            seq[i] = x /\ \A j \in 1..(i - 1) : seq[j] # x
    ELSE 0

\* C1: every execution that has called incrementReferenceCount ends, by a
\* host exit or by a failure of the launcher, with exactly one
\* decrementReferenceCount after it, made on the 'error' (SPAWN_FAILED) or
\* the 'close' (EXITED) path.
C1_RefCountPaired ==
    (Ended /\ Count(calls, "increment") = 1)
        => /\ Count(calls, "decrement") = 1
           /\ FirstIndex(calls, "increment") < FirstIndex(calls, "decrement")
           /\ pc \in {"EXITED", "SPAWN_FAILED"}

\* C3: on the spawn-failure path the host exits with status 1; on the
\* termination path it exits with the child's code, 0 only when there is
\* none, after the decrement and then the service shutdown.
C3_ExitStatusMapping ==
    /\ pc = "SPAWN_FAILED" => exitStatus = <<1>>
    /\ pc = "EXITED" =>
        /\ exitStatus = (IF child.code = << >> THEN <<0>> ELSE child.code)
        /\ Len(calls) >= 3
        /\ SubSeq(calls, Len(calls) - 2, Len(calls))
               = <<"decrement", "closeService", "exit">>
        /\ Count(calls, "decrement") = 1
        /\ Count(calls, "closeService") = 1

\* C3's case: a child that ended with a nonzero code, passed on as it is
C3_Witness ==
    /\ pc = "EXITED"
    /\ child.code = <<MaxExitCode>>
    /\ exitStatus = <<MaxExitCode>>
    /\ Has(calls, "closeService")

\* C9: the caller's argument sequence has the same length and elements as
\* when it was passed in.
C9_ArgsUnchanged == args = callerArgs

\* ---- argument translation (SpecArgs)
SettingsName == <<"-","-","s","e","t","t","i","n","g","s">>

Translated == pc \in {"TRANSLATED", "SPAWNED", "REJECTED"}

\* the flag name of a key: one dash for one character, two otherwise
FlagName(key) == (IF Len(key) = 1 THEN <<"-">> ELSE <<"-","-">>) \o key

\* the positions of argsArr that the entry with this key produced
TokensOf(key) == {i \in 1..Len(argsArr) : argsArr[i].key = key}

\* C2: the argument vector given to spawn carries the settings flag with the
\* path getSettingsPath returned: the tokens --settings, <path> in
\* non-interactive mode, the one token --settings "<path>" otherwise.
C2_SettingsFlagDelivered ==
    pc = "SPAWNED" =>
        IF config.NON_INTERACTIVE_MODE
        THEN \E i \in 1..(Len(child.argv) - 1) :
                /\ child.argv[i] = SettingsName
                /\ child.argv[i + 1] = settingsFile
        ELSE \E i \in 1..Len(child.argv) :
                child.argv[i]
                    = SettingsName \o <<" ", "\"">> \o settingsFile \o <<"\"">>

\* C4: every parsed flag whose value is neither true nor false gives, in
\* non-interactive mode, exactly two adjacent tokens, its flag name and then
\* its value (a string as it is, any other value as its JSON text), and in
\* interactive mode exactly one token: the flag name, a space and the JSON
\* text of the value.  The two end-to-end examples of section 8 are
\* included.
C4_ValuedFlagTokens ==
    Translated =>
        /\ \A n \in 1..Len(argsObj.flags) :
            LET e == argsObj.flags[n] IN
            e.val.t # "bool" =>
                IF config.NON_INTERACTIVE_MODE
                THEN \E i \in 1..(Len(argsArr) - 1) :
                        /\ TokensOf(e.key) = {i, i + 1}
                        /\ argsArr[i].tok = FlagName(e.key)
                        /\ argsArr[i + 1].tok
                               = (IF e.val.t = "str" THEN e.val.v
                                  ELSE JsonStringify(e.val))
                ELSE \E i \in 1..Len(argsArr) :
                        /\ TokensOf(e.key) = {i}
                        /\ argsArr[i].tok
                               = FlagName(e.key) \o <<" ">>
                                     \o JsonStringify(e.val)
        /\ (/\ callerArgs = <<<<"-","-","m","o","d","e","l">>, <<"x">>,
                              <<"-","v">>>>
            /\ ~config.NON_INTERACTIVE_MODE)
             => /\ Tokens(argsArr)[1]
                       = <<"-","-","m","o","d","e","l"," ","\"","x","\"">>
                /\ Tokens(argsArr)[2] = <<"-","v">>
        /\ (/\ callerArgs = <<<<"-","-","m","o","d","e","l">>, <<"x">>>>
            /\ config.NON_INTERACTIVE_MODE)
             => /\ Tokens(argsArr)[1] = <<"-","-","m","o","d","e","l">>
                /\ Tokens(argsArr)[2] = <<"x">>

\* C4's case: --model x, then a number and a repeated flag, translated in
\* non-interactive mode
C4_Witness ==
    /\ Translated
    /\ config.NON_INTERACTIVE_MODE
    /\ callerArgs = <<<<"-","-","m","o","d","e","l">>, <<"x">>,
                      <<"-","-","m","o","d","e","l">>>>
    /\ Len(argsArr) = 4
    /\ argsArr[2].tok = <<"[","\"","x","\"",",","t","r","u","e","]">>

\* C5: in both modes a flag whose value is true gives exactly one token, its
\* bare flag name; a flag whose value is false gives none; and no token
\* comes from the positional arguments.
C5_BooleanFlagRule ==
    Translated =>
        /\ \A n \in 1..Len(argsObj.flags) :
            LET e == argsObj.flags[n] IN
            /\ IsTrue(e.val) =>
                \E i \in 1..Len(argsArr) :
                    /\ TokensOf(e.key) = {i}
                    /\ argsArr[i].tok = FlagName(e.key)
            /\ IsFalse(e.val) => TokensOf(e.key) = {}
        /\ TokensOf(<<"_">>) = {}
        /\ \A i \in 1..Len(argsArr) :
            \E n \in 1..Len(argsObj.flags) :
                argsObj.flags[n].key = argsArr[i].key

\* C5's case: a positional, a false flag and true flags in one sequence
C5_Witness ==
    /\ Translated
    /\ callerArgs = <<<<"x">>, <<"-","-","n","o","-","v">>, <<"-","a","b">>>>
    /\ Len(argsObj.pos) = 1
    /\ \E n \in 1..Len(argsObj.flags) : IsFalse(argsObj.flags[n].val)
    /\ \E n \in 1..Len(argsObj.flags) : IsTrue(argsObj.flags[n].val)
    /\ Tokens(argsArr)[1] = <<"-","a">>
    /\ Tokens(argsArr)[2] = <<"-","b">>

\* ---- the settings payload (SpecEnv)
Persisted == pc = "SETTINGS_WRITTEN"

\* the status-line configuration the claim selects: the preset's when the
\* preset has one, the global one otherwise
ChosenStatusLine ==
    IF presetConfig.StatusLine.present THEN presetConfig.StatusLine
    ELSE config.StatusLine

ChosenEnabled == ChosenStatusLine.present /\ ChosenStatusLine.enabled

\* the synthesized status line as the claim words it
IsSynthesized(sl) ==
    /\ sl.present
    /\ sl.type = "command"
    /\ sl.padding = 0
    /\ sl.command = (IF presetName # Null THEN <<"ccr", "statusline", presetName>>
                     ELSE <<"ccr", "statusline">>)

\* C6 as stated: the persisted payload has the synthesized status line
\* exactly when the selected configuration is enabled.
C6_StatusLineIffEnabled ==
    Persisted =>
        /\ settingsWritten.statusLine.present <=> ChosenEnabled
        /\ settingsWritten.statusLine.present
               => IsSynthesized(settingsWritten.statusLine)

\* C6 as amended: when the preset's claudeCodeSettings carry a statusLine of
\* their own, the persisted payload has that one; otherwise it has the
\* synthesized status line {type "command", padding 0} exactly when the
\* selected configuration (the preset's if it has one, else the global one)
\* is enabled, with the command "ccr statusline" suffixed with the preset
\* name exactly when a name was supplied.
C6_StatusLinePrecedence ==
    Persisted =>
        IF /\ presetConfig.claudeCodeSettings.present
           /\ presetConfig.claudeCodeSettings.statusLine.present
        THEN settingsWritten.statusLine
                 = presetConfig.claudeCodeSettings.statusLine
        ELSE /\ settingsWritten.statusLine.present <=> ChosenEnabled
             /\ settingsWritten.statusLine.present
                    => IsSynthesized(settingsWritten.statusLine)

\* C6's case: a disabled preset status line beside an enabled global one,
\* with a preset name: the preset's enablement decides, nothing is emitted
C6_Witness ==
    /\ Persisted
    /\ presetConfig.StatusLine = [present |-> TRUE, enabled |-> FALSE]
    /\ config.StatusLine = [present |-> TRUE, enabled |-> TRUE]
    /\ presetName = "fast"
    /\ ~presetConfig.claudeCodeSettings.statusLine.present
    /\ ~settingsWritten.statusLine.present

AutomationKeys == {"CI", "FORCE_COLOR", "NODE_NO_READLINE", "TERM"}

\* the value of key k after overrides and the preset's environment, as the
\* claims word it: the preset's value if it has the key, else the
\* override's, else the base one
MergedValue(k) ==
    IF /\ presetConfig.claudeCodeSettings.present
       /\ presetConfig.claudeCodeSettings.env[k] # Absent
    THEN presetConfig.claudeCodeSettings.env[k]
    ELSE IF envOverrides[k] # Absent THEN envOverrides[k]
    ELSE baseEnv[k]

\* C7: in non-interactive mode the persisted environment has TERM "dumb",
\* CI "true", FORCE_COLOR "0" and NODE_NO_READLINE "1" whatever the base
\* environment, the overrides or the preset set, and every other key is as
\* they left it.
C7_NonInteractiveOverride ==
    (Persisted /\ config.NON_INTERACTIVE_MODE) =>
        /\ settingsWritten.env["TERM"] = "dumb"
        /\ settingsWritten.env["CI"] = "true"
        /\ settingsWritten.env["FORCE_COLOR"] = "0"
        /\ settingsWritten.env["NODE_NO_READLINE"] = "1"
        /\ \A k \in EnvKeys \ AutomationKeys :
            settingsWritten.env[k] = MergedValue(k)

\* C7's case: base, override and preset each set TERM, and it is "dumb"
C7_Witness ==
    /\ Persisted
    /\ config.NON_INTERACTIVE_MODE
    /\ baseEnv["TERM"] = "xterm"
    /\ envOverrides["TERM"] = "ansi"
    /\ presetConfig.claudeCodeSettings.env["TERM"] = "vt100"
    /\ settingsWritten.env["TERM"] = "dumb"
    /\ settingsWritten.env["C"] = "4"

\* C8 as stated: with nested settings in the preset, every key of the
\* persisted environment has the preset's value if the preset has the key,
\* and the base (overridden) value otherwise.
C8_EnvIsUnion ==
    (Persisted /\ presetConfig.claudeCodeSettings.present) =>
        \A k \in EnvKeys : settingsWritten.env[k] = MergedValue(k)

\* C8 as amended: the same, except that in non-interactive mode the keys
\* CI, FORCE_COLOR, NODE_NO_READLINE and TERM hold the automation values
\* instead.
C8_EnvDeepMerge ==
    (Persisted /\ presetConfig.claudeCodeSettings.present) =>
        \A k \in EnvKeys :
            settingsWritten.env[k]
                = (IF config.NON_INTERACTIVE_MODE /\ k \in AutomationKeys
                   THEN AutomationEnv[k]
                   ELSE MergedValue(k))

\* C8's case: base {A:1, B:2} and preset {B:3, C:4} give {A:1, B:3, C:4}
C8_Witness ==
    /\ Persisted
    /\ baseEnv = EnvOf("1", "2", Absent, Absent)
    /\ envOverrides = EmptyEnv
    /\ presetConfig.claudeCodeSettings.present
    /\ presetConfig.claudeCodeSettings.env = EnvOf(Absent, "3", "4", Absent)
    /\ settingsWritten.env = EnvOf("1", "3", "4", Absent)

\* ---- the output file (Spec)
FileMode == Has(handlers, "data")

\* every call on the descriptor made after position i of calls
LaterFdCalls(i) ==
    {j \in (i + 1)..Len(calls) : calls[j] \in {"write", "fsync", "closeFd"}}

\* the chunks arrive appended and flushed, one after the other, and nothing
\* is done on the descriptor once it is closed
ChunksDurableInOrder ==
    /\ pc # "CRASHED" =>
        /\ fileContent = [i \in 1..emitted |-> i]
        /\ synced = emitted
    /\ \A i \in 1..Len(calls) : calls[i] = "closeFd" => LaterFdCalls(i) = {}

\* C10 as stated: in file mode every chunk is appended and flushed in
\* emission order before the next event, nothing is written or flushed
\* after the close, and the descriptor is closed exactly once before the
\* host exits, on the 'close' and on the 'error' path.
C10_FdClosedOnEveryPath ==
    FileMode =>
        /\ ChunksDurableInOrder
        /\ pc \in {"EXITED", "SPAWN_FAILED"} =>
            /\ Count(calls, "closeFd") = 1
            /\ FirstIndex(calls, "closeFd") < FirstIndex(calls, "exit")

\* C10 as amended: the same for the chunks and for writes after the close;
\* the descriptor is closed exactly once before the exit on the 'close'
\* path, and is not closed by the launcher on the 'error' path.
C10_FdLifecycle ==
    FileMode =>
        /\ ChunksDurableInOrder
        /\ pc = "EXITED" =>
            /\ Count(calls, "closeFd") = 1
            /\ FirstIndex(calls, "closeFd") < FirstIndex(calls, "exit")
        /\ pc = "SPAWN_FAILED" => Count(calls, "closeFd") = 0

\* C10's case: two chunks written and flushed, then the close
C10_Witness ==
    /\ FileMode
    /\ pc = "EXITED"
    /\ Len(fileContent) >= 2
    /\ synced = Len(fileContent)
    /\ Count(calls, "fsync") >= 2
    /\ Count(calls, "closeFd") = 1

====
